---- MODULE Spec2Model ----
(***************************************************************************)
(* Subtitle Syncer (app/main.py, app/services.py): the job registry, the   *)
(* request handler, the background pipeline, the TTL sweep and the         *)
(* per-job deferred cleanup task, as one state machine.                    *)
(*                                                                         *)
(* Everything in main.py runs on one asyncio event loop, so the code       *)
(* between two suspension points is one atomic step.  `async with          *)
(* registry_lock` never suspends when the lock is free, and no holder      *)
(* awaits inside the block, so _register_job, _update_job, _append_log,    *)
(* _remove_job and _get_job do not yield; the suspension points are the    *)
(* run_in_threadpool calls, the upload reads, asyncio.sleep and the        *)
(* return of a response.  Each action below is one such step.              *)
(*                                                                         *)
(* progress is kept in hundredths (0.25 is 25).  Time is in seconds.       *)
(*                                                                         *)
(* Spec is the running server.  FairSpec is its writing tasks under the    *)
(* event loop's fairness.  RegistrySpec calls the registry functions       *)
(* directly with any id, and SweepSpec follows one cleanup_old_jobs call   *)
(* entry by entry while BASE_DIR changes under it.                         *)
(***************************************************************************)
EXTENDS Integers, Sequences, FiniteSets, TLC

VARIABLES
    now,            \* time.time()
    app,            \* "starting" until startup_cleanup has run, then "serving"
    fs,             \* BASE_DIR: job directory name -> [mtime, files]
    job_registry,   \* job_id -> JobState
    registry_lock,  \* owner of registry_lock at a suspension point, or Free
    req,            \* per request: position of process_request
    form,           \* per request: the submitted form, while it is being handled
    args,           \* per job: the arguments _run_pipeline was scheduled with
    pc,             \* per job: position of _run_pipeline
    encoding,       \* per job: _run_pipeline's local `encoding`
    exc,            \* per job: the exception _run_pipeline is handling / raised
    reaper,         \* per job: the _schedule_job_cleanup task
    response,       \* the HTTP response being returned, or NoResponse
    visible,        \* per job: progress values a reader could observe, in order
    written,        \* per job: progress values written to the registry, in order
    invoked,        \* per job: thread-pool calls _run_pipeline has started
    ended,          \* per job: time at which _run_pipeline exited, or Never
    caller,         \* the last call made on the registry functions directly
    sweep           \* one cleanup_old_jobs call followed entry by entry

vars == <<now, app, fs, job_registry, registry_lock, req, form, args, pc, encoding,
          exc, reaper, response, visible, written, invoked, ended, caller,
          sweep>>

----------------------------------------------------------------------------
(* Bounds and program constants *)

JOB_TTL_SECONDS == 3600

\* One Tick of the clock, and how many Ticks a behaviour may take.
ClockStep == 1800
MaxTicks == 2

\* Requests a behaviour may make; request r is given job id r by uuid4().
JobOrder == <<"j1", "j2">>
JobIds == {JobOrder[i] : i \in 1..Len(JobOrder)}
\* An id uuid4() never produced.
GhostId == "j0"
\* A directory left under BASE_DIR by an earlier run of the process.
StaleDir == "stale"

None == "None"
Free == "free"
Never == 0 - 1
NoResponse == [route |-> None, job_id |-> None, reply |-> [code |-> 0]]
\* No direct call on the registry was made; the caller holds no JobState.
NoHeld == [job_id |-> None, live |-> FALSE]
NoCall == [call |-> None, job_id |-> None, outcome |-> None, held |-> NoHeld]
\* No cleanup_old_jobs call is being followed.
NoSweep == [state |-> "none"]

----------------------------------------------------------------------------
(* File names inside a job directory (video_basename is "movie") *)

video_basename == "movie"
VideoFile == "original_video"
SubFile == "original_sub"
NormalizedFile == "normalized_sub.srt"
AlignedTempFile == "aligned_temp.srt"
FinalFile == video_basename \o ".srt"
ZipFile == video_basename \o "_results.zip"
BackupFile(extension) == video_basename \o extension \o ".bk"

VIDEO_EXTENSIONS == {".mkv", ".mp4", ".avi", ".mov"}
SUBTITLE_EXTENSIONS == {".smi", ".srt", ".ass", ".ssa", ".sub", ".vtt"}

----------------------------------------------------------------------------
(* The filesystem under BASE_DIR *)

NoFiles == [n \in {} |-> ""]

Exists(disk, d) == d \in DOMAIN disk

FileExists(disk, d, name) == Exists(disk, d) /\ name \in DOMAIN disk[d].files

\* mkdir: a new, empty directory, last modified now.
Mkdir(disk, d, t) ==
    [x \in DOMAIN disk \cup {d} |->
        IF x = d THEN [mtime |-> t, files |-> NoFiles] ELSE disk[x]]

\* Creating or overwriting a file.  A directory's mtime changes when an entry
\* is added to it, not when an existing file is rewritten.
WriteFile(disk, d, name, content, t) ==
    [disk EXCEPT ![d] =
        [mtime |-> IF name \in DOMAIN @.files THEN @.mtime ELSE t,
         files |-> [n \in DOMAIN @.files \cup {name} |->
                        IF n = name THEN content ELSE @.files[n]]]]

\* Mutant of RenameFile: the source is copied to the target and left in place.
RenameFileKeepsSource(disk, d, from, to, t) ==
    [disk EXCEPT ![d] =
        [mtime |-> t,
         files |-> [n \in DOMAIN @.files \cup {to} |->
                        IF n = to THEN @.files[from] ELSE @.files[n]]]]

\* os.rename / Path.replace inside one directory.
RenameFile(disk, d, from, to, t) ==
    [disk EXCEPT ![d] =
        [mtime |-> t,
         files |-> [n \in (DOMAIN @.files \ {from}) \cup {to} |->
                        IF n = to THEN @.files[from] ELSE @.files[n]]]]

\* shutil.rmtree(d, ignore_errors=True)
Rmtree(disk, d) == [x \in DOMAIN disk \ {d} |-> disk[x]]

\* Mutant of _safe_cleanup: the directory is left in place.
_safe_cleanup_skipped(disk, d) == disk

\* _safe_cleanup
_safe_cleanup(disk, d) == IF Exists(disk, d) THEN Rmtree(disk, d) ELSE disk

\* A child of BASE_DIR is a directory, [mtime, files], or a regular file,
\* [mtime, content].
is_dir(disk, d) == "files" \in DOMAIN disk[d]

\* Mutant of Expired: `age > ttl_seconds` for `age >= ttl_seconds`.
ExpiredStrictlyOlder(disk, ttl_seconds, t) ==
    {d \in DOMAIN disk : is_dir(disk, d) /\ t - disk[d].mtime > ttl_seconds}

\* Mutant of Expired: the `if not item.is_dir(): continue` test left out.
ExpiredAnyKind(disk, ttl_seconds, t) ==
    {d \in DOMAIN disk : t - disk[d].mtime >= ttl_seconds}

\* cleanup_old_jobs: the directories it removes ...
Expired(disk, ttl_seconds, t) ==
    {d \in DOMAIN disk : is_dir(disk, d) /\ t - disk[d].mtime >= ttl_seconds}

\* ... and the filesystem it leaves.
cleanup_old_jobs(disk, ttl_seconds, t) ==
    [d \in DOMAIN disk \ Expired(disk, ttl_seconds, t) |-> disk[d]]

----------------------------------------------------------------------------
(* The registry *)

\* dict assignment log_messages[name] = entry: a new key goes last, an
\* existing key keeps its place.
DictSet(logs, entry) ==
    IF \E i \in 1..Len(logs) : logs[i].name = entry.name
    THEN [i \in 1..Len(logs) |->
             IF logs[i].name = entry.name THEN entry ELSE logs[i]]
    ELSE Append(logs, entry)

\* JobState(...) as process_request builds it.
JobState(job_id, logs, detected_encoding) ==
    [job_id |-> job_id,
     status |-> "queued",
     progress |-> 10,
     current_step |-> "Preparing job",
     message |-> "Waiting to start",
     video_basename |-> video_basename,
     final_subtitle_path |-> None,
     log_messages |-> logs,
     detected_encoding |-> detected_encoding,
     zip_path |-> None,
     error_message |-> None]

\* Mutant of LockOnExit: the lock is still held after the block.
LockKeptOnExit(owner) == owner

\* What `async with registry_lock` leaves the lock as on exit.
LockOnExit(owner) == Free

_register_job(reg, job) ==
    [i \in DOMAIN reg \cup {job.job_id} |->
        IF i = job.job_id THEN job ELSE reg[i]]

\* _update_job raises HTTPException(404) when the id is absent ...
Absent(reg, job_id) == job_id \notin DOMAIN reg

\* Mutant of _update_job: the loop over changes stops after `progress`, so one
\* call's changes are applied in part.
_update_job_partial(reg, job_id, changes) ==
    [reg EXCEPT ![job_id] =
        [f \in DOMAIN @ |->
            IF f \in DOMAIN changes /\ f = "progress" THEN changes[f] ELSE @[f]]]

\* ... and otherwise sets every given attribute.
_update_job(reg, job_id, changes) ==
    [reg EXCEPT ![job_id] =
        [f \in DOMAIN @ |-> IF f \in DOMAIN changes THEN changes[f] ELSE @[f]]]

_append_log(reg, job_id, entry) ==
    IF job_id \in DOMAIN reg
    THEN [reg EXCEPT ![job_id].log_messages = DictSet(@, entry)]
    ELSE reg

\* Mutant of _remove_job: job_registry.clear() for job_registry.pop(job_id).
_remove_job_clears(reg, job_id) == [i \in {} |-> reg[i]]

_remove_job(reg, job_id) == [i \in DOMAIN reg \ {job_id} |-> reg[i]]

----------------------------------------------------------------------------
Init ==
    /\ now = 0
    /\ app = "starting"
    /\ fs \in { [d \in {} |-> [mtime |-> 0, files |-> NoFiles]],
                [d \in {StaleDir} |->
                    [mtime |-> 0 - JOB_TTL_SECONDS, files |-> NoFiles]] }
    /\ job_registry = [i \in {} |-> JobState(i, <<>>, None)]
    /\ registry_lock = Free
    /\ req = [r \in JobIds |-> "idle"]
    /\ form = [r \in JobIds |-> [extension |-> None, force_sami |-> FALSE,
                               input_encoding |-> None]]
    /\ args = [j \in JobIds |-> [subtitle_suffix |-> None,
                               detected_encoding |-> None]]
    /\ pc = [j \in JobIds |-> "none"]
    /\ encoding = [j \in JobIds |-> None]
    /\ exc = [j \in JobIds |-> None]
    /\ reaper = [j \in JobIds |-> [state |-> "none", wake |-> Never]]
    /\ response = NoResponse
    /\ visible = [j \in JobIds |-> <<>>]
    /\ written = [j \in JobIds |-> <<>>]
    /\ invoked = [j \in JobIds |-> <<>>]
    /\ ended = [j \in JobIds |-> Never]
    /\ caller = NoCall
    /\ sweep = NoSweep

\* What a reader polling between two steps can have seen of each job's
\* progress: the values the registry held at suspension points, in order.
Observe(seen, reg) ==
    [j \in JobIds |->
        IF j \in DOMAIN reg
           /\ (seen[j] = <<>> \/ seen[j][Len(seen[j])] # reg[j].progress)
        THEN Append(seen[j], reg[j].progress)
        ELSE seen[j]]

\* A task the event loop can run at once: a background task that was just
\* added, a handler whose sweep has returned.
Ready(j) == pc[j] = "start" \/ req[j] = "swept"

\* The clock advances (by a step this coarse) only while the event loop has
\* nothing ready: threads, uploads and sleeping tasks take the time.
Tick ==
    /\ response = NoResponse
    /\ \A j \in JobIds : ~Ready(j)
    /\ now < MaxTicks * ClockStep
    /\ now' = now + ClockStep
    /\ UNCHANGED <<caller, sweep>>
    /\ UNCHANGED <<app, fs, job_registry, registry_lock, req, form, args, pc,
                   encoding, exc, reaper, response, visible, written,
                   invoked, ended>>

\* startup_cleanup
Startup ==
    /\ app = "starting"
    /\ app' = "serving"
    /\ fs' = cleanup_old_jobs(fs, JOB_TTL_SECONDS, now)
    /\ UNCHANGED <<caller, sweep>>
    /\ UNCHANGED <<now, job_registry, registry_lock, req, form, args, pc,
                   encoding, exc, reaper, response, visible, written,
                   invoked, ended>>

----------------------------------------------------------------------------
(* process_request *)

NoForm == [extension |-> None, force_sami |-> FALSE, input_encoding |-> None]
NoArgs == [subtitle_suffix |-> None, detected_encoding |-> None]

\* Forms a client may submit: the extensions of the video (movie.*) and of the
\* subtitle, force_sami and encoding_override.
FormVideoExtensions == {".mp4", ".exe"}
FormExtensions == {".srt", ".ass", ".txt"}
\* force_sami is left off here: forcing only changes the suffix of the staged
\* subtitle (to .smi, which is backed up like .srt).
FormForceSami == {FALSE}
FormOverrides == {"", "  ", " UTF-8"}

\* encoding_override.strip().lower()
StripLower(s) ==
    CASE s = "" -> ""
      [] s = "  " -> ""
      [] s = " UTF-8" -> "utf-8"

\* _ensure_extension
_ensure_extension(extension, allowed) == extension \in allowed

\* uuid4() gives request r the id r; ids are handed out in order.
Fresh(r) ==
    \E i \in 1..Len(JobOrder) :
        /\ JobOrder[i] = r
        /\ req[r] = "idle"
        /\ \A k \in 1..(i - 1) : req[JobOrder[k]] # "idle"

\* process_request up to its first await: the sweep in the thread pool.
RequestSweep(r) ==
    /\ app = "serving"
    /\ response = NoResponse
    /\ registry_lock = Free
    /\ Fresh(r)
    /\ fs' = cleanup_old_jobs(fs, JOB_TTL_SECONDS, now)
    /\ req' = [req EXCEPT ![r] = "swept"]
    /\ UNCHANGED <<caller, sweep>>
    /\ UNCHANGED <<now, app, job_registry, registry_lock, form, args, pc,
                   encoding, exc, reaper, response, visible, written,
                   invoked, ended>>

\* The extension checks, uuid4(), job_dir.mkdir(), and the uploads begin.
RequestValidate(r, video_extension, extension, force_sami, override) ==
    /\ response = NoResponse
    /\ req[r] = "swept"
    /\ IF /\ _ensure_extension(video_extension, VIDEO_EXTENSIONS)
          /\ _ensure_extension(extension, SUBTITLE_EXTENSIONS)
       THEN /\ fs' = Mkdir(fs, r, now)
            /\ req' = [req EXCEPT ![r] = "uploading"]
            /\ form' = [form EXCEPT ![r] =
                           [extension |-> extension,
                            force_sami |-> force_sami,
                            input_encoding |-> StripLower(override)]]
       ELSE /\ req' = [req EXCEPT ![r] = "rejected_400"]
            /\ UNCHANGED <<fs, form>>
    /\ UNCHANGED <<caller, sweep>>
    /\ UNCHANGED <<now, app, job_registry, registry_lock, args, pc, encoding,
                   exc, reaper, response, visible, written, invoked, ended>>

\* The job directory once both uploads are saved, the subtitle renamed to .smi
\* under force_sami, and copied to <video_basename><suffix> unless that exists.
SubtitleSuffix(f) ==
    IF f.force_sami /\ f.extension # ".smi" THEN ".smi" ELSE f.extension

Staged(disk, r, f, t) ==
    LET up == WriteFile(WriteFile(disk, r, VideoFile, "VIDEO", t),
                        r, SubFile \o f.extension, "SUB", t)
        forced == IF f.force_sami /\ f.extension # ".smi"
                  THEN RenameFile(up, r, SubFile \o f.extension,
                                  SubFile \o ".smi", t)
                  ELSE up
        subtitle_path == SubFile \o SubtitleSuffix(f)
        existing_match == video_basename \o SubtitleSuffix(f)
    IN  IF FileExists(forced, r, existing_match)
        THEN forced
        ELSE WriteFile(forced, r, existing_match,
                       forced[r].files[subtitle_path], t)

\* The uploads end.  Saved: the job is registered and the pipeline added to
\* the background tasks (202).  Not saved (413, or an I/O error such as the
\* directory having been swept meanwhile): _safe_cleanup, and the error is
\* raised.
UploadDone(r, outcome) ==
    /\ response = NoResponse
    /\ registry_lock = Free
    /\ req[r] = "uploading"
    /\ outcome = "saved" => Exists(fs, r)
    /\ IF outcome = "saved"
       THEN LET input_encoding == form[r].input_encoding
                detected_encoding ==
                    IF input_encoding = "" THEN None ELSE input_encoding
                logs == IF detected_encoding # None
                        THEN <<[name |-> "uchardet", stdout |-> "User override"]>>
                        ELSE <<>>
            IN  /\ fs' = Staged(fs, r, form[r], now)
                /\ job_registry' =
                       _register_job(job_registry,
                                     JobState(r, logs, detected_encoding))
                /\ registry_lock' = LockOnExit(r)
                /\ args' = [args EXCEPT ![r] =
                               [subtitle_suffix |-> SubtitleSuffix(form[r]),
                                detected_encoding |-> detected_encoding]]
                /\ pc' = [pc EXCEPT ![r] = "start"]
                /\ written' = [written EXCEPT ![r] = <<10>>]
                /\ req' = [req EXCEPT ![r] = "accepted_202"]
       ELSE /\ fs' = _safe_cleanup(fs, r)
            /\ req' = [req EXCEPT ![r] =
                          IF outcome = "too_large" THEN "rejected_413"
                          ELSE "rejected_500"]
            /\ UNCHANGED <<job_registry, registry_lock, args, pc, written>>
    /\ form' = [form EXCEPT ![r] = NoForm]
    /\ visible' = Observe(visible, job_registry')
    /\ UNCHANGED <<caller, sweep>>
    /\ UNCHANGED <<now, app, encoding, exc, reaper, response, invoked, ended>>

RequestOf(r) ==
    \/ RequestSweep(r)
    \/ \E video_extension \in FormVideoExtensions,
          extension \in FormExtensions,
          force_sami \in FormForceSami, override \in FormOverrides :
            RequestValidate(r, video_extension, extension, force_sami, override)
    \/ \E outcome \in {"saved", "too_large", "io_error"} :
            UploadDone(r, outcome)

Request == \E r \in JobIds : RequestOf(r)

----------------------------------------------------------------------------
(* The external tools, as services.py wraps them *)

UHC_LABELS == {"uhc", "cp949", "ms949", "ms_949", "windows-949", "949",
               "ks_c_5601-1987"}

\* raw_label.strip().lower() on the labels uchardet prints here.
LabelStripLower(raw_label) ==
    CASE raw_label = "UTF-8\n" -> "utf-8"
      [] raw_label = " CP949 " -> "cp949"
      [] raw_label = "unknown\n" -> "unknown"
      [] raw_label = " " -> ""
      [] OTHER -> raw_label

normalize_encoding_label(raw_label) ==
    IF raw_label = None \/ raw_label = "" THEN None
    ELSE LET normalized == LabelStripLower(raw_label)
         IN  IF normalized = "" \/ normalized = "unknown" THEN None
             ELSE IF normalized \in UHC_LABELS THEN "uhc"
             ELSE normalized

\* What a subprocess can do: exit 0 with some stdout, exit non-zero
\* (CalledProcessError, which run_subprocess turns into PipelineError), or not
\* start at all (OSError from subprocess.run, which run_subprocess lets through).
UchardetStdouts == {"UTF-8\n", "unknown\n"}
ToolOutcomes == {"ok", "exit_nonzero", "oserror"}

\* The stub tools of the integration test.
pysubs2_output(content) == "NORMALIZED\n" \o content
ffsubsync_output(content) == "ALIGNED\n" \o content

\* str(exc)
ExitMessage == "Command failed with exit code 1"
UndetectedMessage == "Unable to detect subtitle encoding with uchardet"
OSErrorMessage == "[Errno 2] No such file or directory"

----------------------------------------------------------------------------
(* _run_pipeline *)

\* _backup_existing_subtitles
RECURSIVE BackupEach(_, _, _, _)
BackupEach(disk, d, extensions, t) ==
    IF extensions = <<>> THEN disk
    ELSE LET original == video_basename \o Head(extensions)
             next == IF FileExists(disk, d, original)
                     THEN RenameFile(disk, d, original, original \o ".bk", t)
                     ELSE disk
         IN  BackupEach(next, d, Tail(extensions), t)

_backup_existing_subtitles(disk, d, t) ==
    BackupEach(disk, d, <<".srt", ".smi">>, t)

\* Mutant of files_for_zip: the `if backup.exists()` test left out.
files_for_zip_unchecked(disk, d) ==
    {FinalFile, BackupFile(".srt"), BackupFile(".smi")}

\* files_for_zip: the published subtitle and every backup that exists.
files_for_zip(disk, d) ==
    {FinalFile} \cup {BackupFile(e) : e \in {x \in {".srt", ".smi"} :
                                               FileExists(disk, d, BackupFile(x))}}

\* Mutant of RunningChanges: status="running" left out.
RunningChangesKeepsQueued ==
    [message |-> "Detecting subtitle encoding",
     current_step |-> "Detecting encoding", progress |-> 25]

\* The updates _run_pipeline makes.
RunningChanges ==
    [status |-> "running", message |-> "Detecting subtitle encoding",
     current_step |-> "Detecting encoding", progress |-> 25]
\* Mutant of NormalizingChanges: progress 0.6 for 0.45.
NormalizingChangesAt60 ==
    [message |-> "Normalizing subtitles with pysubs2",
     current_step |-> "Normalizing subtitles", progress |-> 60]

NormalizingChanges ==
    [message |-> "Normalizing subtitles with pysubs2",
     current_step |-> "Normalizing subtitles", progress |-> 45]
BackupChanges ==
    [message |-> "Creating backups",
     current_step |-> "Backing up existing subtitles", progress |-> 60]
AligningChanges ==
    [message |-> "Aligning subtitles with ffsubsync",
     current_step |-> "Aligning subtitles", progress |-> 80]
\* Mutant of PackagingChanges: zip_path is stored before the archive is made.
PackagingChangesSetsZipPath ==
    [message |-> "Packaging results",
     current_step |-> "Creating ZIP archive", progress |-> 90,
     zip_path |-> ZipFile]

\* Mutant of PackagingChanges: progress 0.95 for 0.9.
PackagingChangesAt95 ==
    [message |-> "Packaging results",
     current_step |-> "Creating ZIP archive", progress |-> 95]
PackagingChanges ==
    [message |-> "Packaging results",
     current_step |-> "Creating ZIP archive", progress |-> 90]
CompletedChanges(zip_path) ==
    [status |-> "completed", message |-> "Subtitle synchronized successfully.",
     current_step |-> "Completed", progress |-> 100,
     final_subtitle_path |-> FinalFile, zip_path |-> zip_path,
     video_basename |-> video_basename]
\* Mutant of FailedChanges: progress reset, as in the error page's JobState.
FailedChangesResetsProgress(kind, text) ==
    [status |-> "failed", message |-> "Processing failed.", progress |-> 0,
     current_step |-> "Failed", error_message |-> text]
\* Mutant of FailedChanges: status="failed" left out.
FailedChangesKeepsRunning(kind, text) ==
    [message |-> "Processing failed.", current_step |-> "Failed",
     error_message |-> text]
\* Mutant of FailedChanges: error_message=str(exc) left empty.
FailedChangesNoMessage(kind, text) ==
    [status |-> "failed", message |-> "Processing failed.",
     current_step |-> "Failed", error_message |-> ""]
FailedChanges(kind, text) ==
    [status |-> "failed",
     message |-> IF kind = "PipelineError" THEN "Processing failed."
                 ELSE "An unexpected error occurred.",
     current_step |-> "Failed", error_message |-> text]

\* finally: asyncio.create_task(_schedule_job_cleanup(job_id, job_dir)); the
\* task goes to sleep for JOB_TTL_SECONDS.
Scheduled(t) == [state |-> "sleeping", wake |-> t + JOB_TTL_SECONDS]

\* _update_job raised 404 inside the try block: the `except Exception` handler
\* calls _update_job, which raises again; the finally clause runs and the
\* exception leaves _run_pipeline.
Escape(j) ==
    /\ pc' = [pc EXCEPT ![j] = "raised"]
    /\ exc' = [exc EXCEPT ![j] = "HTTPException"]
    /\ reaper' = [reaper EXCEPT ![j] = Scheduled(now)]
    /\ ended' = [ended EXCEPT ![j] = now]
    /\ UNCHANGED <<job_registry, invoked, written>>

\* The try block goes on: the registry becomes reg, the progress values progs
\* were written, and the thread-pool call `call` is started.
Continue(j, reg, call, progs) ==
    IF Absent(job_registry, j) THEN Escape(j)
    ELSE /\ job_registry' = reg
         /\ pc' = [pc EXCEPT ![j] = call]
         /\ invoked' = [invoked EXCEPT ![j] = Append(@, call)]
         /\ written' = [written EXCEPT ![j] = @ \o progs]
         /\ UNCHANGED <<exc, reaper, ended>>

\* Mutant of Handle: `except Exception` raises again at once, before the job
\* is marked failed and before _safe_cleanup.
HandleRaisesAtOnce(j, kind, text) ==
    IF kind = "PipelineError"
    THEN /\ job_registry' = _update_job(job_registry, j, FailedChanges(kind, text))
         /\ pc' = [pc EXCEPT ![j] = "_safe_cleanup"]
         /\ exc' = [exc EXCEPT ![j] = kind]
         /\ invoked' = [invoked EXCEPT ![j] = Append(@, "_safe_cleanup")]
         /\ UNCHANGED <<reaper, ended, written>>
    ELSE /\ pc' = [pc EXCEPT ![j] = "raised"]
         /\ exc' = [exc EXCEPT ![j] = kind]
         /\ reaper' = [reaper EXCEPT ![j] = Scheduled(now)]
         /\ ended' = [ended EXCEPT ![j] = now]
         /\ UNCHANGED <<job_registry, invoked, written>>

\* An exception of the given kind reaches the except clauses: the job is
\* marked failed and _safe_cleanup is started in the thread pool.
Handle(j, kind, text) ==
    IF Absent(job_registry, j) THEN Escape(j)
    ELSE /\ job_registry' = _update_job(job_registry, j, FailedChanges(kind, text))
         /\ pc' = [pc EXCEPT ![j] = "_safe_cleanup"]
         /\ exc' = [exc EXCEPT ![j] = kind]
         /\ invoked' = [invoked EXCEPT ![j] = Append(@, "_safe_cleanup")]
         /\ UNCHANGED <<reaper, ended, written>>

\* Mutant of Complete: the job completes and no _schedule_job_cleanup task is
\* created.
CompleteWithoutTask(j, zip_path) ==
    /\ job_registry' = _update_job(job_registry, j, CompletedChanges(zip_path))
    /\ pc' = [pc EXCEPT ![j] = "returned"]
    /\ ended' = [ended EXCEPT ![j] = now]
    /\ written' = [written EXCEPT ![j] = Append(@, 100)]
    /\ UNCHANGED <<exc, invoked, reaper>>

\* The last update of the try block, then the finally clause.
Complete(j, zip_path) ==
    IF Absent(job_registry, j) THEN Escape(j)
    ELSE /\ job_registry' = _update_job(job_registry, j, CompletedChanges(zip_path))
         /\ pc' = [pc EXCEPT ![j] = "returned"]
         /\ reaper' = [reaper EXCEPT ![j] = Scheduled(now)]
         /\ ended' = [ended EXCEPT ![j] = now]
         /\ written' = [written EXCEPT ![j] = Append(@, 100)]
         /\ UNCHANGED <<exc, invoked>>

\* What every step of _run_pipeline leaves alone or derives.
PipelineFrame(j) ==
    /\ response = NoResponse
    /\ registry_lock = Free
    /\ registry_lock' = LockOnExit(j)
    /\ visible' = Observe(visible, job_registry')
    /\ UNCHANGED <<caller, sweep>>
    /\ UNCHANGED <<now, app, req, form, args, response>>

\* Mutant of PipelineStart: `if not encoding` left out, so run_uchardet is
\* started whether or not an override was given.
PipelineStartAlwaysDetects(j) ==
    /\ pc[j] = "start"
    /\ Continue(j, _update_job(job_registry, j, RunningChanges),
                "run_uchardet", <<25>>)
    /\ encoding' = [encoding EXCEPT ![j] = args[j].detected_encoding]
    /\ UNCHANGED fs
    /\ PipelineFrame(j)

\* The background task starts: status running, and either detection or, with
\* an override, normalization is started.
PipelineStart(j) ==
    /\ pc[j] = "start"
    /\ LET running == _update_job(job_registry, j, RunningChanges)
       IN  IF args[j].detected_encoding = None
           THEN Continue(j, running, "run_uchardet", <<25>>)
           ELSE Continue(j, _update_job(running, j, NormalizingChanges),
                         "run_pysubs2", <<25, 45>>)
    /\ encoding' = [encoding EXCEPT ![j] = args[j].detected_encoding]
    /\ UNCHANGED fs
    /\ PipelineFrame(j)

\* run_uchardet returns or raises.
UchardetReturn(j, outcome, stdout) ==
    /\ pc[j] = "run_uchardet"
    /\ LET label == normalize_encoding_label(stdout)
           logged == _append_log(job_registry, j,
                                 [name |-> "uchardet", stdout |-> stdout])
           stored == _update_job(logged, j, [detected_encoding |-> label])
       IN  CASE outcome = "exit_nonzero" ->
                    Handle(j, "PipelineError", ExitMessage) /\ UNCHANGED encoding
             [] outcome = "oserror" ->
                    Handle(j, "Exception", OSErrorMessage) /\ UNCHANGED encoding
             [] outcome = "ok" /\ label = None ->
                    Handle(j, "PipelineError", UndetectedMessage)
                    /\ UNCHANGED encoding
             [] OTHER ->
                    /\ Continue(j, _update_job(stored, j, NormalizingChanges),
                                "run_pysubs2", <<45>>)
                    /\ encoding' = [encoding EXCEPT ![j] = label]
    /\ UNCHANGED fs
    /\ PipelineFrame(j)

\* run_pysubs2 returns or raises.  It can only have written its output if the
\* job directory and the uploaded subtitle are still there.
Pysubs2Return(j, outcome) ==
    /\ pc[j] = "run_pysubs2"
    /\ LET subtitle_path == SubFile \o args[j].subtitle_suffix
       IN  /\ outcome = "ok" => FileExists(fs, j, subtitle_path)
           /\ CASE outcome = "exit_nonzero" ->
                       Handle(j, "PipelineError", ExitMessage) /\ UNCHANGED fs
                [] outcome = "oserror" ->
                       Handle(j, "Exception", OSErrorMessage) /\ UNCHANGED fs
                [] OTHER ->
                       /\ fs' = WriteFile(fs, j, NormalizedFile,
                                    pysubs2_output(fs[j].files[subtitle_path]), now)
                       /\ Continue(j,
                              _update_job(
                                  _append_log(job_registry, j,
                                      [name |-> "pysubs2", stdout |-> "converted"]),
                                  j, BackupChanges),
                              "_backup_existing_subtitles", <<60>>)
    /\ UNCHANGED encoding
    /\ PipelineFrame(j)

\* _backup_existing_subtitles returns.
BackupReturn(j) ==
    /\ pc[j] = "_backup_existing_subtitles"
    /\ fs' = _backup_existing_subtitles(fs, j, now)
    /\ Continue(j, _update_job(job_registry, j, AligningChanges),
                "run_ffsubsync", <<80>>)
    /\ UNCHANGED encoding
    /\ PipelineFrame(j)

\* run_ffsubsync returns or raises.
FfsubsyncReturn(j, outcome) ==
    /\ pc[j] = "run_ffsubsync"
    /\ outcome = "ok" =>
           FileExists(fs, j, NormalizedFile) /\ FileExists(fs, j, VideoFile)
    /\ CASE outcome = "exit_nonzero" ->
                Handle(j, "PipelineError", ExitMessage) /\ UNCHANGED fs
         [] outcome = "oserror" ->
                Handle(j, "Exception", OSErrorMessage) /\ UNCHANGED fs
         [] OTHER ->
                /\ fs' = WriteFile(fs, j, AlignedTempFile,
                             ffsubsync_output(fs[j].files[NormalizedFile]), now)
                /\ Continue(j,
                       _append_log(job_registry, j,
                           [name |-> "ffsubsync", stdout |-> "synced"]),
                       "replace", <<>>)
    /\ UNCHANGED encoding
    /\ PipelineFrame(j)

\* aligned_temp_path.replace(final_subtitle_path) returns or raises; then the
\* backups are looked up and either the archive is started or the job completes.
ReplaceReturn(j) ==
    /\ pc[j] = "replace"
    /\ IF FileExists(fs, j, AlignedTempFile)
       THEN LET moved == RenameFile(fs, j, AlignedTempFile, FinalFile, now)
            IN  /\ fs' = moved
                /\ IF Cardinality(files_for_zip(moved, j)) > 1
                   THEN Continue(j, _update_job(job_registry, j, PackagingChanges),
                                 "_create_zip_archive", <<90>>)
                   ELSE Complete(j, None)
       ELSE Handle(j, "Exception", OSErrorMessage) /\ UNCHANGED fs
    /\ UNCHANGED encoding
    /\ PipelineFrame(j)

\* _create_zip_archive returns or raises (the directory is gone, the disk full).
ZipReturn(j, outcome) ==
    /\ pc[j] = "_create_zip_archive"
    /\ outcome = "ok" => Exists(fs, j)
    /\ IF outcome = "ok"
       THEN /\ fs' = WriteFile(fs, j, ZipFile, "ZIP", now)
            /\ Complete(j, ZipFile)
       ELSE Handle(j, "Exception", OSErrorMessage) /\ UNCHANGED fs
    /\ UNCHANGED encoding
    /\ PipelineFrame(j)

\* _safe_cleanup returns; the finally clause runs; after `except Exception`
\* the exception is raised again.
CleanupReturn(j) ==
    /\ pc[j] = "_safe_cleanup"
    /\ response = NoResponse
    /\ fs' = _safe_cleanup(fs, j)
    /\ pc' = [pc EXCEPT ![j] =
                 IF exc[j] = "PipelineError" THEN "returned" ELSE "raised"]
    /\ reaper' = [reaper EXCEPT ![j] = Scheduled(now)]
    /\ ended' = [ended EXCEPT ![j] = now]
    /\ UNCHANGED <<caller, sweep>>
    /\ UNCHANGED <<now, app, job_registry, registry_lock, req, form, args,
                   encoding, exc, response, visible, written, invoked>>

PipelineOf(j) ==
    \/ PipelineStart(j)
    \/ \E outcome \in ToolOutcomes, stdout \in UchardetStdouts :
           UchardetReturn(j, outcome, stdout)
    \/ \E outcome \in ToolOutcomes : Pysubs2Return(j, outcome)
    \/ BackupReturn(j)
    \/ \E outcome \in ToolOutcomes : FfsubsyncReturn(j, outcome)
    \/ ReplaceReturn(j)
    \/ \E outcome \in {"ok", "oserror"} : ZipReturn(j, outcome)
    \/ CleanupReturn(j)

Pipeline == \E j \in JobIds : PipelineOf(j)

----------------------------------------------------------------------------
(* _schedule_job_cleanup *)

\* asyncio.sleep(JOB_TTL_SECONDS) is over: the entry is removed and, if the
\* job directory exists, the sweep is started in the thread pool.
ReaperWake(j) ==
    /\ reaper[j].state = "sleeping"
    /\ now >= reaper[j].wake
    /\ response = NoResponse
    /\ registry_lock = Free
    /\ job_registry' = _remove_job(job_registry, j)
    /\ registry_lock' = LockOnExit(j)
    /\ reaper' = [reaper EXCEPT ![j].state =
                     IF Exists(fs, j) THEN "sweeping" ELSE "done"]
    /\ UNCHANGED <<caller, sweep>>
    /\ UNCHANGED <<now, app, fs, req, form, args, pc, encoding, exc, response,
                   visible, written, invoked, ended>>

\* cleanup_old_jobs returns to the task, which ends.
ReaperSweep(j) ==
    /\ reaper[j].state = "sweeping"
    /\ response = NoResponse
    /\ fs' = cleanup_old_jobs(fs, JOB_TTL_SECONDS, now)
    /\ reaper' = [reaper EXCEPT ![j].state = "done"]
    /\ UNCHANGED <<caller, sweep>>
    /\ UNCHANGED <<now, app, job_registry, registry_lock, req, form, args, pc,
                   encoding, exc, response, visible, written, invoked, ended>>

ReaperOf(j) == ReaperWake(j) \/ ReaperSweep(j)

Reaper == \E j \in JobIds : ReaperOf(j)

----------------------------------------------------------------------------
(* The read-only routes *)

\* Mutant of _get_job: an absent id gets a default JobState, not a 404.
_get_job_defaulting(reg, job_id, require_completed) ==
    IF job_id \notin DOMAIN reg
    THEN [code |-> 200, job |-> JobState(job_id, <<>>, None)]
    ELSE IF require_completed /\ reg[job_id].status # "completed"
    THEN [code |-> 409, detail |-> "Job is still processing"]
    ELSE [code |-> 200, job |-> reg[job_id]]

\* _get_job: the JobState, or the HTTPException it raises.
_get_job(reg, job_id, require_completed) ==
    IF job_id \notin DOMAIN reg
    THEN [code |-> 404, detail |-> "Job not found or expired"]
    ELSE IF require_completed /\ reg[job_id].status # "completed"
    THEN [code |-> 409, detail |-> "Job is still processing"]
    ELSE [code |-> 200, job |-> reg[job_id]]

Max(a, b) == IF a >= b THEN a ELSE b
Min(a, b) == IF a <= b THEN a ELSE b

\* The payload job_status builds from a JobState.
StatusPayload(job) ==
    [job_id |-> job.job_id,
     status |-> job.status,
     progress |-> Max(0, Min(100, job.progress)),
     current_step |-> job.current_step,
     message |-> job.message,
     detected_encoding |-> job.detected_encoding]

\* GET /status/{job_id}
job_status(reg, job_id) ==
    LET got == _get_job(reg, job_id, FALSE)
    IN  IF got.code # 200 THEN got
        ELSE [code |-> 200, body |-> StatusPayload(got.job)]

\* GET /result/{job_id}
job_result(reg, disk, job_id) ==
    LET got == _get_job(reg, job_id, FALSE)
    IN  IF got.code # 200 THEN got
        ELSE IF got.job.status = "completed"
        THEN IF got.job.final_subtitle_path = None
                \/ ~FileExists(disk, job_id, got.job.final_subtitle_path)
             THEN [code |-> 404, detail |-> "Result expired"]
             ELSE [code |-> 200, template |-> "result.html", job |-> got.job]
        ELSE IF got.job.status = "failed"
        THEN [code |-> 500, template |-> "error.html", job |-> got.job]
        ELSE [code |-> 202, template |-> "processing.html", job_id |-> job_id]

\* GET /download/{job_id}
download(reg, disk, job_id) ==
    LET got == _get_job(reg, job_id, TRUE)
    IN  IF got.code # 200 THEN got
        ELSE IF got.job.final_subtitle_path = None
                \/ ~FileExists(disk, job_id, got.job.final_subtitle_path)
        THEN [code |-> 404, detail |-> "Subtitle file not found"]
        ELSE [code |-> 200, file |-> got.job.final_subtitle_path,
              filename |-> got.job.video_basename \o ".srt"]

\* GET /download/{job_id}/zip
download_zip(reg, disk, job_id) ==
    LET got == _get_job(reg, job_id, TRUE)
    IN  IF got.code # 200 THEN got
        ELSE IF got.job.zip_path = None
                \/ ~FileExists(disk, job_id, got.job.zip_path)
        THEN [code |-> 404, detail |-> "Archive not available"]
        ELSE [code |-> 200, file |-> got.job.zip_path,
              filename |-> got.job.zip_path]

RouteNames == {"status", "result", "download", "download_zip"}

\* Ids a client may ask about.
QueryIds == JobIds \cup {GhostId}

\* A route runs to its response without suspending.
Query(route, job_id) ==
    /\ app = "serving"
    /\ response = NoResponse
    /\ registry_lock = Free
    /\ response' =
           [route |-> route, job_id |-> job_id,
            reply |-> CASE route = "status" ->
                               job_status(job_registry, job_id)
                        [] route = "result" ->
                               job_result(job_registry, fs, job_id)
                        [] route = "download" ->
                               download(job_registry, fs, job_id)
                        [] route = "download_zip" ->
                               download_zip(job_registry, fs, job_id)]
    /\ UNCHANGED <<caller, sweep>>
    /\ UNCHANGED <<now, app, fs, job_registry, registry_lock, req, form, args,
                   pc, encoding, exc, reaper, visible, written, invoked, ended>>

\* The response leaves the server.
ResponseSent ==
    /\ response # NoResponse
    /\ response' = NoResponse
    /\ UNCHANGED <<caller, sweep>>
    /\ UNCHANGED <<now, app, fs, job_registry, registry_lock, req, form, args,
                   pc, encoding, exc, reaper, visible, written, invoked, ended>>

Routes ==
    \/ \E route \in RouteNames, job_id \in QueryIds :
           Query(route, job_id)
    \/ ResponseSent

Next == Tick \/ Startup \/ Request \/ Pipeline \/ Reaper \/ Routes

Spec == Init /\ [][Next]_vars

\* The tasks that write: the read-only routes, which hold the event loop for
\* one step and change nothing a task reads, are left out.
WritersNext == Tick \/ Startup \/ Request \/ Pipeline \/ Reaper

\* The event loop runs every ready task in turn: once a background task has
\* been added, or the thread-pool call it awaits has returned or raised, the
\* pipeline's next step is taken.
FairSpec ==
    /\ Init /\ [][WritersNext]_vars
    /\ \A j \in JobIds : WF_vars(PipelineOf(j))

----------------------------------------------------------------------------
(* The registry functions, each called directly with any id *)

\* What the program's own tasks hold; a direct call leaves it alone.
program == <<now, app, fs, req, form, args, pc, encoding, exc, reaper,
             response, visible, written, invoked, ended, sweep>>

\* The arguments a caller passes.
CallerJobs == {JobState(j, <<>>, None) : j \in JobIds}
CallerChanges == {RunningChanges, FailedChanges("PipelineError", ExitMessage)}
CallerEntries == {[name |-> "pysubs2", stdout |-> "converted"]}

\* _get_job returns the JobState object that is in the registry, not a copy:
\* while that object stays in the registry, setattr and log_messages[...] = ...
\* on it show in what the caller holds.
Aliased(held, reg) ==
    IF held.live THEN [held EXCEPT !.job = reg[held.job_id]] ELSE held

\* job_registry[job_id] = job or job_registry.pop(job_id): the object a
\* caller holds for job_id is no longer the registry's.
Detached(held, job_id) ==
    IF held.job_id = job_id THEN [held EXCEPT !.live = FALSE] ELSE held

CallFrame ==
    /\ registry_lock = Free
    /\ registry_lock' = LockOnExit("caller")
    /\ UNCHANGED program

\* await _register_job(job)
CallRegister(job) ==
    /\ job_registry' = _register_job(job_registry, job)
    /\ caller' = [call |-> "_register_job", job_id |-> job.job_id,
                  outcome |-> "returned",
                  held |-> Detached(caller.held, job.job_id)]
    /\ CallFrame

\* await _update_job(job_id, **changes)
CallUpdate(job_id, changes) ==
    /\ IF Absent(job_registry, job_id)
       THEN /\ caller' = [caller EXCEPT !.call = "_update_job",
                                        !.job_id = job_id,
                                        !.outcome = "HTTPException(404)"]
            /\ UNCHANGED job_registry
       ELSE /\ job_registry' = _update_job(job_registry, job_id, changes)
            /\ caller' = [call |-> "_update_job", job_id |-> job_id,
                          outcome |-> "returned",
                          held |-> Aliased(caller.held, job_registry')]
    /\ CallFrame

\* await _append_log(job_id, name, entry)
CallAppendLog(job_id, entry) ==
    /\ job_registry' = _append_log(job_registry, job_id, entry)
    /\ caller' = [call |-> "_append_log", job_id |-> job_id,
                  outcome |-> "returned",
                  held |-> Aliased(caller.held, job_registry')]
    /\ CallFrame

\* await _remove_job(job_id)
CallRemove(job_id) ==
    /\ job_registry' = _remove_job(job_registry, job_id)
    /\ caller' = [call |-> "_remove_job", job_id |-> job_id,
                  outcome |-> "returned",
                  held |-> Detached(caller.held, job_id)]
    /\ CallFrame

\* job = await _get_job(job_id, require_completed): the caller keeps job.
CallGet(job_id, require_completed) ==
    /\ LET got == _get_job(job_registry, job_id, require_completed)
       IN  caller' =
               [call |-> "_get_job", job_id |-> job_id,
                outcome |-> IF got.code = 200 THEN "returned"
                            ELSE IF got.code = 404 THEN "HTTPException(404)"
                            ELSE "HTTPException(409)",
                held |-> IF got.code = 200
                         THEN [job_id |-> job_id, live |-> TRUE, job |-> got.job]
                         ELSE NoHeld]
    /\ UNCHANGED job_registry
    /\ CallFrame

RegistryNext ==
    \/ \E job \in CallerJobs : CallRegister(job)
    \/ \E job_id \in QueryIds, changes \in CallerChanges :
           CallUpdate(job_id, changes)
    \/ \E job_id \in QueryIds, entry \in CallerEntries :
           CallAppendLog(job_id, entry)
    \/ \E job_id \in QueryIds : CallRemove(job_id)
    \/ \E job_id \in QueryIds, require_completed \in BOOLEAN :
           CallGet(job_id, require_completed)

RegistrySpec == Init /\ [][RegistryNext]_vars

----------------------------------------------------------------------------
(* One cleanup_old_jobs call, entry by entry, with BASE_DIR changing under it *)

\* Children BASE_DIR may hold when the call starts, and when each was last
\* modified: TTL ago, one second less than TTL ago, or longer ago.
SweepNames == {"a", "b", "c", "d"}
SweepMtimes == {0 - JOB_TTL_SECONDS - 1, 0 - JOB_TTL_SECONDS,
                1 - JOB_TTL_SECONDS}
SweepChildren ==
    [mtime : SweepMtimes, files : {NoFiles}]
    \cup [mtime : {0 - JOB_TTL_SECONDS}, content : {"x"}]

SweepInit ==
    /\ now = 0
    /\ app = "starting"
    /\ \E S \in SUBSET SweepNames : fs \in [S -> SweepChildren]
    /\ job_registry = [i \in {} |-> JobState(i, <<>>, None)]
    /\ registry_lock = Free
    /\ req = [r \in JobIds |-> "idle"]
    /\ form = [r \in JobIds |-> NoForm]
    /\ args = [j \in JobIds |-> NoArgs]
    /\ pc = [j \in JobIds |-> "none"]
    /\ encoding = [j \in JobIds |-> None]
    /\ exc = [j \in JobIds |-> None]
    /\ reaper = [j \in JobIds |-> [state |-> "none", wake |-> Never]]
    /\ response = NoResponse
    /\ visible = [j \in JobIds |-> <<>>]
    /\ written = [j \in JobIds |-> <<>>]
    /\ invoked = [j \in JobIds |-> <<>>]
    /\ ended = [j \in JobIds |-> Never]
    /\ caller = NoCall
    /\ sweep = NoSweep

SweepFrame ==
    UNCHANGED <<now, app, job_registry, registry_lock, req, form, args, pc,
                encoding, exc, reaper, response, visible, written, invoked,
                ended, caller>>

\* removed = []; now = time.time(); base_dir.iterdir() lists the children.
SweepStart ==
    /\ sweep.state = "none"
    /\ sweep' = [state |-> "iterating", now |-> now, listing |-> fs,
                 todo |-> DOMAIN fs, at |-> None, removed |-> {},
                 vanished |-> {}]
    /\ UNCHANGED fs
    /\ SweepFrame

\* The loop takes the next item: is_dir() is False for a missing path and
\* stat() raises FileNotFoundError, which is caught; both go on to the next
\* item, as a regular file and a young directory do.
SweepCheck(item) ==
    /\ sweep.state = "iterating"
    /\ sweep.at = None
    /\ item \in sweep.todo
    /\ sweep' = [sweep EXCEPT
                     !.todo = @ \ {item},
                     !.at = IF item \in DOMAIN fs
                               /\ item \in Expired(fs, JOB_TTL_SECONDS, sweep.now)
                            THEN item ELSE None]
    /\ UNCHANGED fs
    /\ SweepFrame

\* shutil.rmtree(item, ignore_errors=True); removed.append(item)
SweepRmtree ==
    /\ sweep.state = "iterating"
    /\ sweep.at # None
    /\ fs' = IF Exists(fs, sweep.at) THEN Rmtree(fs, sweep.at) ELSE fs
    /\ sweep' = [sweep EXCEPT !.removed = @ \cup {sweep.at}, !.at = None]
    /\ SweepFrame

\* return removed
SweepReturn ==
    /\ sweep.state = "iterating"
    /\ sweep.at = None
    /\ sweep.todo = {}
    /\ sweep' = [sweep EXCEPT !.state = "returned"]
    /\ UNCHANGED fs
    /\ SweepFrame

\* Another thread (a second sweep, a failed job's _safe_cleanup) removes a
\* child while this call is going through its list.
Vanish(d) ==
    /\ sweep.state = "iterating"
    /\ Exists(fs, d)
    /\ fs' = Rmtree(fs, d)
    /\ sweep' = [sweep EXCEPT !.vanished = @ \cup {d}]
    /\ SweepFrame

SweepNext ==
    \/ SweepStart
    \/ \E item \in SweepNames : SweepCheck(item)
    \/ SweepRmtree
    \/ SweepReturn
    \/ \E d \in SweepNames : Vanish(d)

SweepSpec == SweepInit /\ [][SweepNext]_vars

----------------------------------------------------------------------------
(* Properties *)

Registered(j) == j \in DOMAIN job_registry
Terminal(status) == status \in {"completed", "failed"}
ThreadCalls == {"run_uchardet", "run_pysubs2", "_backup_existing_subtitles",
                "run_ffsubsync", "replace", "_create_zip_archive",
                "_safe_cleanup"}
PipelineExited(j) == pc[j] \in {"returned", "raised"}

\* C1: a job is registered as queued, its status only ever moves
\* queued -> running -> completed | failed, a terminal status is never left, and
\* an id that was removed is never registered again.
StatusMovesForward ==
    [][\A j \in JobIds :
        /\ (~Registered(j) /\ j \in DOMAIN job_registry') =>
               /\ job_registry'[j].status = "queued"
               /\ pc[j] = "none"
        /\ (Registered(j) /\ j \in DOMAIN job_registry') =>
               \/ job_registry'[j].status = job_registry[j].status
               \/ <<job_registry[j].status, job_registry'[j].status>> \in
                      {<<"queued", "running">>, <<"running", "completed">>,
                       <<"running", "failed">>}]_vars

\* C1 witness: a job has gone through running and is completed.
StatusReachedCompleted ==
    \E j \in JobIds :
        /\ Registered(j)
        /\ job_registry[j].status = "completed"
        /\ PipelineExited(j)

\* C2: progress stays within [0, 1], is 1.0 whenever the status is completed,
\* never decreases from one registry state to the next, and is not changed by
\* the step that marks the job failed nor by any step after it.
ProgressMonotone ==
    /\ [](\A j \in DOMAIN job_registry :
            /\ job_registry[j].progress >= 0
            /\ job_registry[j].progress <= 100
            /\ job_registry[j].status = "completed" =>
                   job_registry[j].progress = 100)
    /\ [][\A j \in JobIds :
            (Registered(j) /\ j \in DOMAIN job_registry') =>
                /\ job_registry'[j].progress >= job_registry[j].progress
                /\ job_registry'[j].status = "failed" =>
                       job_registry'[j].progress = job_registry[j].progress]_vars

\* C2 witness: a job failed during alignment and its progress is still 0.8.
FailedKeepsProgress ==
    \E j \in JobIds :
        /\ Registered(j)
        /\ job_registry[j].status = "failed"
        /\ job_registry[j].progress = 80
        /\ PipelineExited(j)

\* The last element of a sequence.
Last(seq) == seq[Len(seq)]

\* C3: once a stage has failed, the only call still started is _safe_cleanup,
\* and when the pipeline has exited the job is failed, carries a non-empty
\* error message, and its directory is gone.
FailureAbortsAndCleans ==
    \A j \in JobIds :
        exc[j] # None =>
            /\ Last(invoked[j]) = "_safe_cleanup"
            /\ \A i \in 1..(Len(invoked[j]) - 1) : invoked[j][i] # "_safe_cleanup"
            /\ Registered(j) =>
                   /\ job_registry[j].status = "failed"
                   /\ job_registry[j].error_message \notin {None, ""}
            /\ PipelineExited(j) => ~Exists(fs, j)

\* C3 witness: normalization failed after detection succeeded; nothing but
\* the cleanup ran afterwards and the pipeline has returned.
FailedInNormalize ==
    \E j \in JobIds :
        /\ pc[j] = "returned"
        /\ exc[j] = "PipelineError"
        /\ invoked[j] = <<"run_uchardet", "run_pysubs2", "_safe_cleanup">>
        /\ Registered(j)

\* The checkpoints a completed job went through, given whether detection ran
\* and whether an archive was made.
Checkpoints(detect, package) ==
    <<10>> \o (IF detect THEN <<25>> ELSE <<>>) \o <<45, 60, 80>>
           \o (IF package THEN <<90>> ELSE <<>>) \o <<100>>

EntryAndDirectoryUntilTTL ==
    \A j \in JobIds :
        ended[j] # Never =>
            /\ now < ended[j] + JOB_TTL_SECONDS =>
                   Registered(j) /\ Exists(fs, j)
            /\ reaper[j].state = "done" => ~Registered(j) /\ ~Exists(fs, j)

\* C5 amended: until TTL after the pipeline exited the registry entry exists,
\* and the directory exists if the job completed and is already gone if it
\* failed; once the deferred task has run, neither exists.
EntryUntilTTLDirectoryIfCompleted ==
    \A j \in JobIds :
        ended[j] # Never =>
            /\ now < ended[j] + JOB_TTL_SECONDS =>
                   /\ Registered(j)
                   /\ Terminal(job_registry[j].status)
                   /\ (Exists(fs, j) <=> job_registry[j].status = "completed")
            /\ reaper[j].state = "done" => ~Registered(j) /\ ~Exists(fs, j)

\* C5 witness: a completed job's deferred task has run its sweep, at the
\* moment TTL had elapsed.
CompletedJobReaped ==
    \E j \in JobIds :
        /\ reaper[j].state = "done"
        /\ pc[j] = "returned"
        /\ exc[j] = None
        /\ now = ended[j] + JOB_TTL_SECONDS

\* C6: the directory of a job that is queued or running exists.
InFlightDirectoryKept ==
    \A j \in DOMAIN job_registry :
        job_registry[j].status \in {"queued", "running"} => Exists(fs, j)

\* C7: a status or result query about an id that is not in the registry is
\* answered 404, and a query changes neither the registry nor the filesystem.
AbsentIdIsNotFound ==
    /\ [](response # NoResponse /\ ~Registered(response.job_id) =>
              response.reply.code = 404)
    /\ [][response' # NoResponse => UNCHANGED <<job_registry, fs>>]_vars

\* C7 witness: a query about a job the deferred task has removed got 404.
RemovedJobQueried ==
    /\ response.job_id \in JobIds
    /\ reaper[response.job_id].state = "done"
    /\ response.route = "result"
    /\ response.reply.code = 404

Rejected(r) == req[r] \in {"rejected_400", "rejected_413", "rejected_500"}

\* C8: a rejected submission has no registry entry, no pipeline and no
\* directory.
RejectedLeavesNothing ==
    \A r \in JobIds :
        Rejected(r) => ~Registered(r) /\ pc[r] = "none" /\ ~Exists(fs, r)

\* C8 witness: an upload was refused as too large after its directory had
\* been made, while the other request was accepted.
UploadRefused ==
    \E r \in JobIds, q \in JobIds :
        req[r] = "rejected_413" /\ req[q] = "accepted_202"

\* A step taken on behalf of job k: by its request, its pipeline or its
\* deferred task.
OnBehalfOf(k) == RequestOf(k) \/ PipelineOf(k) \/ ReaperOf(k)

EntryUntouched(j) ==
    /\ Registered(j) <=> j \in DOMAIN job_registry'
    /\ Registered(j) => job_registry'[j] = job_registry[j]

DirectoryUntouched(j) ==
    /\ Exists(fs, j) <=> Exists(fs', j)
    /\ Exists(fs, j) => fs'[j] = fs[j]

\* C9 as stated, for another job whose pipeline has exited (the claim counts
\* deferred removals and sweeps, which come then): a step on behalf of one job
\* leaves the other job's registry entry and directory as they were.
OtherJobUntouched ==
    [][\A k \in JobIds :
        \/ \A j \in JobIds \ {k} :
               PipelineExited(j) => EntryUntouched(j) /\ DirectoryUntouched(j)
        \/ ~OnBehalfOf(k)]_vars

\* C9 amended: a step on behalf of one job leaves every other job's registry
\* entry as it was, and its directory too, except that a sweep started by the
\* one job's submission or deferred task deletes the other's directory when
\* that directory was last modified TTL or more ago.
OtherJobUntouchedButBySweep ==
    [][\A k \in JobIds :
        \/ \A j \in JobIds \ {k} :
               /\ EntryUntouched(j)
               /\ \/ DirectoryUntouched(j)
                  \/ /\ RequestSweep(k) \/ ReaperSweep(k)
                     /\ Exists(fs, j) /\ ~Exists(fs', j)
                     /\ now - fs[j].mtime >= JOB_TTL_SECONDS
        \/ ~OnBehalfOf(k)]_vars

\* C9 witness: two jobs are in the registry, one still in a thread-pool call
\* with its directory in place while the other has been completed.
TwoJobsInterleaved ==
    \E j \in JobIds, k \in JobIds :
        /\ Registered(j) /\ Registered(k)
        /\ pc[j] = "run_ffsubsync" /\ Exists(fs, j)
        /\ job_registry[k].status = "completed"
        /\ invoked[k] # <<>> /\ invoked[j] # <<>>

\* C10: registry_lock is free whenever a thread-pool call is in progress, a
\* status query about a registered job can always run, and its answer is the
\* job's present state.
StatusQueryNeverWaits ==
    /\ \A j \in JobIds : pc[j] \in ThreadCalls => registry_lock = Free
    /\ \A j \in JobIds :
           (app = "serving" /\ response = NoResponse /\ Registered(j)) =>
               ENABLED Query("status", j)
    /\ (response.route = "status" /\ Registered(response.job_id)) =>
           response.reply =
               [code |-> 200,
                body |-> StatusPayload(job_registry[response.job_id])]

\* C10 witness: a status query was answered while the job's aligner call had
\* not returned.
StatusAnsweredMidStage ==
    /\ response.route = "status"
    /\ response.job_id \in JobIds
    /\ pc[response.job_id] = "run_ffsubsync"
    /\ response.reply.code = 200
    /\ response.reply.body.progress = 80

\* The job's log has an entry of this name.
HasLog(j, name) ==
    \E i \in 1..Len(job_registry[j].log_messages) :
        job_registry[j].log_messages[i].name = name

WrittenTogether ==
    {<<"queued", 10, "Preparing job", "Waiting to start">>}
    \cup {<<"running", c.progress, c.current_step, c.message>> :
             c \in {RunningChanges, NormalizingChanges, BackupChanges,
                    AligningChanges, PackagingChanges}}
    \cup {<<"completed", 100, "Completed",
             "Subtitle synchronized successfully.">>}
    \cup {<<"failed", p, "Failed", m>> :
             p \in {25, 45, 60, 80, 90},
             m \in {"Processing failed.", "An unexpected error occurred."}}

RegisterExistingRaises ==
    [][\A job \in CallerJobs :
          (CallRegister(job) /\ Registered(job.job_id)) =>
              /\ caller'.outcome = "DuplicateJob"
              /\ job_registry' = job_registry]_vars

\* C13: _append_log called with an id that is not in the registry raises
\* NotFound (HTTPException 404) and leaves the registry as it was.
AppendLogAbsentRaises ==
    [][\A job_id \in QueryIds, entry \in CallerEntries :
          (CallAppendLog(job_id, entry) /\ ~Registered(job_id)) =>
              /\ caller'.outcome = "HTTPException(404)"
              /\ job_registry' = job_registry]_vars

\* C14: the JobState a caller got from _get_job is not changed by a later
\* _update_job or _append_log.
GetReturnsSnapshot ==
    [][(caller.held.job_id # None
        /\ \/ \E job_id \in QueryIds, changes \in CallerChanges :
                  CallUpdate(job_id, changes)
           \/ \E job_id \in QueryIds, entry \in CallerEntries :
                  CallAppendLog(job_id, entry)) =>
           caller'.held.job = caller.held.job]_vars

\* The child directories of the listing that were last modified TTL or more
\* before the sweep read the clock.
OldDirectories ==
    {d \in DOMAIN sweep.listing :
        /\ "files" \in DOMAIN sweep.listing[d]
        /\ sweep.now - sweep.listing[d].mtime >= JOB_TTL_SECONDS}

\* C15 as stated: when cleanup_old_jobs has returned, the returned list holds
\* exactly the child directories whose age was TTL or more, all deleted, but
\* for those that disappeared during the sweep, which are skipped; every
\* younger directory and every regular file is in place.
SweepSkipsVanished ==
    sweep.state = "returned" =>
        /\ sweep.removed = OldDirectories \ sweep.vanished
        /\ DOMAIN fs = DOMAIN sweep.listing \ (OldDirectories \cup sweep.vanished)
        /\ \A d \in DOMAIN fs : fs[d] = sweep.listing[d]

\* C15 amended: when cleanup_old_jobs has returned, every child directory
\* whose age was TTL or more is gone and is in the returned list, unless it
\* disappeared during the sweep: then it is in the list or not, according to
\* whether its age had been read before it went; nothing else is in the list;
\* every younger directory and every regular file is in place as it was,
\* unless someone else removed it; with no interference the result is that of
\* the sweep taken at once.
SweepReclaimsOldDirectories ==
    sweep.state = "returned" =>
        /\ sweep.removed \subseteq OldDirectories
        /\ OldDirectories \ sweep.removed \subseteq sweep.vanished
        /\ DOMAIN fs = DOMAIN sweep.listing \ (OldDirectories \cup sweep.vanished)
        /\ \A d \in DOMAIN fs : fs[d] = sweep.listing[d]
        /\ sweep.vanished = {} =>
               /\ sweep.removed = OldDirectories
               /\ fs = cleanup_old_jobs(sweep.listing, JOB_TTL_SECONDS, sweep.now)

\* C15 witness: a sweep has returned having deleted one old directory, left
\* a younger directory and a regular file in place, and listed a second old
\* directory that disappeared between its age test and its deletion.
SweepReturnedMixed ==
    /\ sweep.state = "returned"
    /\ \E d \in sweep.removed \ sweep.vanished :
           sweep.now - sweep.listing[d].mtime = JOB_TTL_SECONDS
    /\ \E d \in DOMAIN fs : "files" \in DOMAIN fs[d]
    /\ \E d \in DOMAIN fs : "content" \in DOMAIN fs[d]
    /\ sweep.removed \cap sweep.vanished # {}

\* C16: the payload of an answered status query carries the job's log
\* entries, one per tool call that has returned: an entry named ffsubsync once
\* the job is completed, none when detection failed without an override.
StatusPayloadCarriesLogs ==
    (response.route = "status" /\ response.reply.code = 200) =>
        LET body == response.reply.body
            j == response.job_id
        IN  /\ "logs" \in DOMAIN body
            /\ body.logs = job_registry[j].log_messages
            /\ body.status = "completed" =>
                   \E i \in 1..Len(body.logs) : body.logs[i].name = "ffsubsync"
            /\ (body.status = "failed" /\ invoked[j][1] = "run_uchardet"
                    /\ Len(invoked[j]) = 2) =>
                   body.logs = <<>>

\* The job started this thread-pool call.
Invoked(j, call) == \E i \in 1..Len(invoked[j]) : invoked[j][i] = call

\* C17: a completed job has zip_path set exactly when _create_zip_archive was
\* run; while its directory stands, that is exactly when a .bk backup is in
\* it, and exactly when the archive is on disk and download_zip serves it;
\* without a backup download_zip answers 404.
ArchiveIffBackup ==
    \A j \in DOMAIN job_registry :
        job_registry[j].status = "completed" =>
            LET packaged == job_registry[j].zip_path # None
                served == download_zip(job_registry, fs, j)
            IN  /\ packaged <=> Invoked(j, "_create_zip_archive")
                /\ Exists(fs, j) =>
                       /\ packaged <=>
                              \E e \in {".srt", ".smi"} :
                                  FileExists(fs, j, BackupFile(e))
                       /\ packaged <=> FileExists(fs, j, ZipFile)
                       /\ served.code = IF packaged THEN 200 ELSE 404

\* C17 witness: one job completed with a backup and its archive is being
\* downloaded; another completed without backup and has no archive.
ArchiveDownloaded ==
    \E j \in DOMAIN job_registry, k \in DOMAIN job_registry :
        /\ response.route = "download_zip" /\ response.job_id = j
        /\ response.reply.code = 200
        /\ FileExists(fs, j, BackupFile(".srt"))
        /\ job_registry[k].status = "completed"
        /\ job_registry[k].zip_path = None
        /\ Exists(fs, k)

\* C19: a result request (the result page or a download) about a registered
\* job is answered "still processing" (202 from job_result, 409 from the
\* downloads) exactly when the job is queued or running, and for a completed
\* job the result page and the subtitle download yield the artifacts.
StillProcessingIffInFlight ==
    (response.route \in {"result", "download", "download_zip"}
     /\ Registered(response.job_id)) =>
        LET status == job_registry[response.job_id].status
        IN  /\ response.reply.code \in {202, 409} <=>
                   status \in {"queued", "running"}
            /\ (status = "completed" /\ response.route # "download_zip") =>
                   response.reply.code = 200

\* C20 as stated: once the aligner, and so every tool call before it, has
\* succeeded, the job ends completed with progress 1.0, the published file
\* holds the aligner's output of the normalizer's output of the upload, and
\* the temporary aligned file is gone.
ToolsSucceededEndsCompleted ==
    \A j \in DOMAIN job_registry :
        (PipelineExited(j) /\ HasLog(j, "ffsubsync")) =>
            /\ job_registry[j].status = "completed"
            /\ job_registry[j].progress = 100
            /\ Exists(fs, j) =>
                   /\ FileExists(fs, j, FinalFile)
                   /\ fs[j].files[FinalFile] = "ALIGNED\nNORMALIZED\nSUB"
                   /\ ~FileExists(fs, j, AlignedTempFile)

\* C20 amended: once every tool call has succeeded and neither the move nor
\* the archive creation has raised, the job ends completed; a completed job
\* has progress 1.0 and the three log entries, and while its directory stands
\* the published file holds ALIGNED, NORMALIZED and the upload, and the
\* temporary aligned file is gone.
CompletedPublishesAlignedOutput ==
    \A j \in DOMAIN job_registry :
        /\ (PipelineExited(j) /\ HasLog(j, "ffsubsync") /\ exc[j] = None) =>
               job_registry[j].status = "completed"
        /\ job_registry[j].status = "completed" =>
               /\ job_registry[j].progress = 100
               /\ job_registry[j].final_subtitle_path = FinalFile
               /\ HasLog(j, "uchardet") /\ HasLog(j, "pysubs2")
               /\ HasLog(j, "ffsubsync")
               /\ Exists(fs, j) =>
                      /\ FileExists(fs, j, FinalFile)
                      /\ fs[j].files[FinalFile] = "ALIGNED\nNORMALIZED\nSUB"
                      /\ ~FileExists(fs, j, AlignedTempFile)

\* C20 witness: a job ran detection and the three tools, was completed with
\* an archive, and its published file is in its directory.
CompletedWithPublishedFile ==
    \E j \in DOMAIN job_registry :
        /\ job_registry[j].status = "completed"
        /\ invoked[j] = <<"run_uchardet", "run_pysubs2",
                          "_backup_existing_subtitles", "run_ffsubsync",
                          "replace", "_create_zip_archive">>
        /\ FileExists(fs, j, FinalFile)
        /\ FileExists(fs, j, BackupFile(".srt"))

\* The pipeline of job j has been launched and has not exited.
InFlight(j) == pc[j] = "start" \/ pc[j] \in ThreadCalls

\* C18: while a job's pipeline is in flight its registry entry is there and
\* nothing has ended the pipeline from outside; every launched pipeline
\* eventually brings its job to completed or failed.
LaunchedJobConcludes ==
    /\ [](\A j \in JobIds :
             /\ InFlight(j) => Registered(j)
             /\ exc[j] # "HTTPException")
    /\ \A j \in JobIds :
           (pc[j] = "start") ~>
               (Registered(j) /\ Terminal(job_registry[j].status))

\* C18 witness: an hour or more after the server started, one launched job
\* has ended completed and the other failed.
BothJobsConcluded ==
    \E j \in DOMAIN job_registry, k \in DOMAIN job_registry :
        /\ PipelineExited(j) /\ job_registry[j].status = "completed"
        /\ PipelineExited(k) /\ job_registry[k].status = "failed"
        /\ ended[j] >= JOB_TTL_SECONDS

----------------------------------------------------------------------------
\* C21: when an exception that is not a PipelineError leaves _run_pipeline,
\* the job has been marked failed with the exception's text and its directory
\* has been removed: _safe_cleanup was the last thread-pool call, the
\* directory is gone, and the entry, for as long as it is registered, is
\* failed, never running.
FaultRaisedAfterFailedAndCleaned ==
    \A j \in JobIds :
        pc[j] = "raised" =>
            /\ exc[j] = "Exception"
            /\ invoked[j] # <<>> /\ Last(invoked[j]) = "_safe_cleanup"
            /\ ~Exists(fs, j)
            /\ IF j \in DOMAIN job_registry
               THEN /\ job_registry[j].status = "failed"
                    /\ job_registry[j].error_message = OSErrorMessage
                    /\ job_registry[j].message = "An unexpected error occurred."
               ELSE reaper[j].state \in {"sweeping", "done"}

\* C21 witness: an OSError from a tool was raised again out of _run_pipeline,
\* and the job is still registered.
FaultRaisedWhileRegistered ==
    \E j \in JobIds :
        /\ pc[j] = "raised"
        /\ exc[j] = "Exception"
        /\ j \in DOMAIN job_registry
        /\ job_registry[j].status = "failed"
        /\ ~Exists(fs, j)
        /\ ended[j] = now

----------------------------------------------------------------------------
\* C22: the _schedule_job_cleanup task of a job is created in the very step
\* in which its _run_pipeline exits, by return or by raise, and in no other:
\* before the exit the job has no such task, the exit creates one that sleeps
\* for JOB_TTL_SECONDS from then, and no later step creates or restarts one.
CleanupTaskCreatedOnceAtExit ==
    [][\A j \in JobIds :
          LET exits == ~PipelineExited(j) /\ pc'[j] \in {"returned", "raised"}
          IN  /\ ~PipelineExited(j) => reaper[j].state = "none"
              /\ exits => reaper'[j] = Scheduled(now)
              /\ ~exits => \/ reaper'[j] = reaper[j]
                           \/ /\ reaper[j].state # "none"
                              /\ reaper'[j].state \in {"sweeping", "done"}
                              /\ reaper'[j].wake = reaper[j].wake]_vars

\* C22 witness: one job returned completed and the other raised, and each has
\* its task, created when it exited.
BothExitsScheduled ==
    /\ pc["j1"] = "returned" /\ pc["j2"] = "raised"
    /\ "j1" \in DOMAIN job_registry /\ job_registry["j1"].status = "completed"
    /\ \A j \in JobIds :
           reaper[j].state = "sleeping" /\ reaper[j].wake = ended[j] + JOB_TTL_SECONDS

----------------------------------------------------------------------------
\* The progress _run_pipeline writes just before it starts a thread-pool call.
CheckpointAt(call) ==
    CASE call = "run_uchardet" -> 25
      [] call = "run_pysubs2" -> 45
      [] call = "_backup_existing_subtitles" -> 60
      [] call \in {"run_ffsubsync", "replace"} -> 80
      [] call = "_create_zip_archive" -> 90
      [] OTHER -> 0

----------------------------------------------------------------------------
\* C24: detected_encoding is written at most once.  A job is registered with
\* the override (stripped and lower-cased) or, when that is empty, with None.
\* With an override run_uchardet is never started and the value never changes;
\* without one the value stays None until run_uchardet returns, that step sets
\* it to the detected label, and no later step changes it.
DetectedEncodingWrittenOnce ==
    [][\A j \in JobIds :
          /\ (~Registered(j) /\ j \in DOMAIN job_registry') =>
                 /\ job_registry'[j].detected_encoding =
                        IF form[j].input_encoding = "" THEN None
                        ELSE form[j].input_encoding
                 /\ args'[j].detected_encoding = job_registry'[j].detected_encoding
          /\ Registered(j) =>
                 LET override == args[j].detected_encoding
                     stored == job_registry[j].detected_encoding
                 IN  /\ override # None =>
                            stored = override /\ ~Invoked(j, "run_uchardet")
                     /\ (override = None /\ stored # None) =>
                            /\ Invoked(j, "run_uchardet")
                            /\ pc[j] # "run_uchardet"
                            /\ stored = encoding[j]
          /\ (Registered(j) /\ j \in DOMAIN job_registry'
              /\ job_registry'[j].detected_encoding
                     # job_registry[j].detected_encoding) =>
                 /\ job_registry[j].detected_encoding = None
                 /\ pc[j] = "run_uchardet"
                 /\ job_registry'[j].detected_encoding \notin {None, ""}
                 /\ job_registry'[j].detected_encoding = encoding'[j]]_vars

\* C24 witness: the first job was given an override and completed without
\* detection; the second was given none, or a blank one, and has the label
\* run_uchardet detected.
OverrideKeptAndLabelDetected ==
    /\ {"j1", "j2"} \subseteq DOMAIN job_registry
    /\ args["j1"].detected_encoding = "utf-8"
    /\ job_registry["j1"].status = "completed"
    /\ job_registry["j1"].detected_encoding = "utf-8"
    /\ ~Invoked("j1", "run_uchardet")
    /\ args["j2"].detected_encoding = None
    /\ Invoked("j2", "run_uchardet")
    /\ job_registry["j2"].detected_encoding = "utf-8"

----------------------------------------------------------------------------
\* How far along a status is: queued, then running, then completed or failed.
StatusRank(status) ==
    CASE status = "queued" -> 0
      [] status = "running" -> 1
      [] OTHER -> 2

\* C25: _update_job called on a registered id with changes that would move
\* status backward raises and leaves the entry as it was; called on an id that
\* is not in the registry it raises NotFound (HTTPException 404).
UpdateBackwardRaises ==
    [][\A job_id \in QueryIds, changes \in CallerChanges :
          CallUpdate(job_id, changes) =>
              /\ ~Registered(job_id) =>
                     /\ caller'.outcome = "HTTPException(404)"
                     /\ job_registry' = job_registry
              /\ (/\ Registered(job_id)
                  /\ StatusRank(changes.status)
                         < StatusRank(job_registry[job_id].status)) =>
                     /\ caller'.outcome # "returned"
                     /\ job_registry' = job_registry]_vars

----------------------------------------------------------------------------
\* C26: in every state of the registry the running server reaches, a job has
\* an error_message only if it is failed, and a final_subtitle_path or a
\* zip_path only if it is completed; so a failed job has neither path and a
\* completed job has no error_message.
ErrorOnlyFailedArtifactsOnlyCompleted ==
    \A j \in DOMAIN job_registry :
        LET job == job_registry[j]
        IN  /\ job.error_message # None => job.status = "failed"
            /\ job.final_subtitle_path # None => job.status = "completed"
            /\ job.zip_path # None => job.status = "completed"
            /\ job.status = "failed" =>
                   job.final_subtitle_path = None /\ job.zip_path = None
            /\ job.status = "completed" => job.error_message = None

\* C26 witness: one job is completed with both paths and no error_message,
\* the other failed while packaging, with an error_message and no path.
CompletedAndFailedSideBySide ==
    \E j, k \in DOMAIN job_registry :
        /\ job_registry[j].status = "completed"
        /\ job_registry[j].final_subtitle_path = FinalFile
        /\ job_registry[j].zip_path = ZipFile
        /\ job_registry[j].error_message = None
        /\ job_registry[k].status = "failed"
        /\ job_registry[k].progress = 90
        /\ job_registry[k].error_message = OSErrorMessage
        /\ job_registry[k].final_subtitle_path = None
        /\ job_registry[k].zip_path = None

====
